---- MODULE Spec2Model ----
(***************************************************************************)
(* Duty Planner: the single-day schedule generator of src/app.py          *)
(* (generate_schedule_for_date) over the tables of src/models.py, with    *)
(* the request handlers that touch the same tables.                       *)
(*                                                                         *)
(* Strings are sequences of one-character strings, so that Python's       *)
(* substring test (`in`) is computed and not assumed.  The Greek words    *)
(* are written in Latin transliteration: Skopia is the source's           *)
(* "Σκοπιά", Thalamofylakas its "Θαλαμοφύλακας", Kouzina its "Κουζίνα".   *)
(***************************************************************************)
EXTENDS Integers, Sequences, FiniteSets, TLC

VARIABLES
    soldiers,          \* table soldiers: id -> [role, total_services, is_available]
    assignments,       \* table assignments: set of rows
    unavailabilities,  \* table unavailabilities: set of rows
    req,               \* the generate requests in flight: worker -> session state
    runs,              \* history: number of generate requests started so far
    init_total,        \* history: every soldier's total_services at the start
    selected,          \* history: soldier -> rows committed for that soldier by generate
    last               \* history: the request that finished last

vars == <<soldiers, assignments, unavailabilities, req, runs, init_total, selected, last>>

store == <<soldiers, assignments, unavailabilities>>

(***************************************************************************)
(* Bounds of the model.                                                    *)
(***************************************************************************)
MaxRuns == 2
MaxUnavailId == 1

SoldierIds == {1, 2}
Workers == {1, 2}

(***************************************************************************)
(* Strings.                                                                *)
(***************************************************************************)
Skopia == <<"S", "k", "o", "p", "i", "a">>
Thalamofylakas == <<"T", "h", "a", "l", "a", "m", "o", "f", "y", "l", "a", "k", "a", "s">>
Kouzina == <<"K", "o", "u", "z", "i", "n", "a">>

\* keyword in text (Python's substring test on str)
Contains(keyword, text) ==
    \E i \in 1..(Len(text) - Len(keyword) + 1) :
        SubSeq(text, i, i + Len(keyword) - 1) = keyword

\* the slots of a day, in the order they are filled
slots ==
    << Skopia \o <<" ", "0", "0", ":", "0", "0", "-", "0", "2", ":", "0", "0">>,
       Skopia \o <<" ", "0", "2", ":", "0", "0", "-", "0", "4", ":", "0", "0">>,
       Skopia \o <<" ", "0", "4", ":", "0", "0", "-", "0", "6", ":", "0", "0">>,
       Thalamofylakas \o <<" ", "I", "m", "e", "r", "a", "s">>,
       Kouzina \o <<" ", "P", "r", "o", "i">> >>

role_keywords == <<Skopia, Thalamofylakas, Kouzina>>

\* the role strings the roster draws from: one duty, two duties, and a role
\* that differs from a keyword only in case
Roles ==
    { Skopia,
      Thalamofylakas \o <<",", " ">> \o Kouzina,
      <<"s", "k", "o", "p", "i", "a">> }

(***************************************************************************)
(* Dates.  A date string is the sequence of its "-"-separated fields, the *)
(* numeric ones as numbers; strptime(s, "%Y-%m-%d").date() accepts three  *)
(* fields that name a day of the calendar and raises ValueError otherwise.*)
(***************************************************************************)
InvalidDate == <<>>

DaysInMonth(y, m) ==
    IF m = 2
    THEN (IF (y % 4 = 0 /\ y % 100 # 0) \/ y % 400 = 0 THEN 29 ELSE 28)
    ELSE IF m \in {4, 6, 9, 11} THEN 30 ELSE 31

\* a changed strptime: three numeric fields, the calendar not consulted
strptimeAnyNumbers(s) ==
    IF Len(s) = 3 /\ \A i \in 1..3 : s[i] \in Nat
    THEN [y |-> s[1], m |-> s[2], d |-> s[3]]
    ELSE InvalidDate

strptime(s) ==
    IF /\ Len(s) = 3
       /\ \A i \in 1..3 : s[i] \in Nat
       /\ s[1] \in 1..9999
       /\ s[2] \in 1..12
       /\ s[3] \in 1..DaysInMonth(s[1], s[2])
    THEN [y |-> s[1], m |-> s[2], d |-> s[3]]
    ELSE InvalidDate

\* the date strings the requests draw from: two days, a month 13, a
\* 30th of February and a string with two fields
DateStrs ==
    { <<2025, 1, 1>>, <<2025, 1, 2>>, <<2025, 13, 1>>, <<2025, 2, 30>>, <<2025, 1>> }

Dates == { strptime(s) : s \in DateStrs } \ {InvalidDate}

(***************************************************************************)
(* The generator's steps, as functions of what the session holds.          *)
(***************************************************************************)

\* Assignment.query.filter_by(date=target_date).all()
ExistingAssignments(rows, target_date) == { a \in rows : a.date = target_date }

\* a changed DeleteExisting: the rows read are left in the table
DeleteNothing(rows, existing_assignments) == rows

\* session.delete of every row read, then commit: DELETE ... WHERE id = ?
DeleteExisting(rows, existing_assignments) ==
    { a \in rows : a.id \notin { e.id : e \in existing_assignments } }

\* the soldier ids with an unavailability row on the date
UnavailableSoldierIds(rows, target_date) ==
    { u.soldier_id : u \in { r \in rows : r.date = target_date } }

\* the first keyword of role_keywords found in the slot's label, 0 if none:
\* the loop over role_keywords stops (break) at the first one it finds
FirstKeyword(shift_type) ==
    LET found == { k \in 1..Len(role_keywords) : Contains(role_keywords[k], shift_type) }
    IN  IF found = {} THEN 0 ELSE CHOOSE k \in found : \A j \in found : k <= j

shift_has_keyword(shift_type) == FirstKeyword(shift_type) # 0

\* a changed soldier_has_matching_role: any keyword in the role matches
MatchesAnyKeyword(shift_type, role) ==
    /\ FirstKeyword(shift_type) # 0
    /\ \E k \in 1..Len(role_keywords) : Contains(role_keywords[k], role)

soldier_has_matching_role(shift_type, role) ==
    /\ FirstKeyword(shift_type) # 0
    /\ Contains(role_keywords[FirstKeyword(shift_type)], role)

\* the role check of one soldier for one slot: TRUE when the soldier is skipped
RoleMismatch(shift_type, role) ==
    shift_has_keyword(shift_type) /\ ~soldier_has_matching_role(shift_type, role)

\* RoleMismatch over the day's slots and the roster's roles, evaluated once
RoleMismatchTable ==
    [ i \in 1..Len(slots) |-> [ role \in Roles |-> RoleMismatch(slots[i], role) ] ]

SlotIndex(shift_type) == CHOOSE i \in 1..Len(slots) : slots[i] = shift_type

\* a changed IsCandidate: already_assigned_today is not consulted
IsCandidateIgnoringAssigned(id, objs, shift_type, unavailable_soldier_ids, already_assigned_today) ==
    /\ objs[id].is_available
    /\ id \notin unavailable_soldier_ids
    /\ ~RoleMismatchTable[SlotIndex(shift_type)][objs[id].role]

\* a changed IsCandidate: the date's unavailability is not consulted
IsCandidateIgnoringUnavailable(id, objs, shift_type, unavailable_soldier_ids, already_assigned_today) ==
    /\ objs[id].is_available
    /\ id \notin already_assigned_today
    /\ ~RoleMismatchTable[SlotIndex(shift_type)][objs[id].role]

\* the conditions a soldier passes to enter a slot's candidate pool
IsCandidate(id, objs, shift_type, unavailable_soldier_ids, already_assigned_today) ==
    /\ objs[id].is_available
    /\ id \notin unavailable_soldier_ids
    /\ id \notin already_assigned_today
    /\ ~RoleMismatchTable[SlotIndex(shift_type)][objs[id].role]

\* candidates, in the order of all_soldiers
RECURSIVE Candidates(_, _, _, _, _)
Candidates(all_soldiers, objs, shift_type, unavailable_soldier_ids, already_assigned_today) ==
    IF all_soldiers = <<>> THEN <<>>
    ELSE LET id == Head(all_soldiers)
             rest == Candidates(Tail(all_soldiers), objs, shift_type,
                                unavailable_soldier_ids, already_assigned_today)
         IN  IF IsCandidate(id, objs, shift_type, unavailable_soldier_ids,
                            already_assigned_today)
             THEN <<id>> \o rest
             ELSE rest

\* a changed SortKey: key=lambda s: s.total_services
SortKeyTotalOnly(id, objs) == <<objs[id].total_services, 0>>

\* key=lambda s: (s.total_services, s.id)
SortKey(id, objs) == <<objs[id].total_services, id>>

\* Python's order on tuples of two numbers
TupleLess(a, b) == a[1] < b[1] \/ (a[1] = b[1] /\ a[2] < b[2])

\* Python's min(candidates, key=...): the first element whose key is smallest
RECURSIVE MinFrom(_, _, _)
MinFrom(candidates, best, objs) ==
    IF candidates = <<>> THEN best
    ELSE MinFrom(Tail(candidates),
                 IF TupleLess(SortKey(Head(candidates), objs), SortKey(best, objs))
                 THEN Head(candidates) ELSE best,
                 objs)

BestSoldier(candidates, objs) == MinFrom(Tail(candidates), Head(candidates), objs)

\* a changed Increment: the counter is left as it is
IncrementNothing(total_services) == total_services

\* best_soldier.total_services += 1
Increment(total_services) == total_services + 1

\* one turn of the loop over slots.  st is what the loop carries: objs (the
\* session's Soldier objects), pending (the Assignment objects added, in
\* order) and already_assigned_today
FillSlot(shift_type, all_soldiers, unavailable_soldier_ids, st) ==
    LET candidates == Candidates(all_soldiers, st.objs, shift_type,
                                 unavailable_soldier_ids, st.already_assigned_today)
    IN  IF candidates = <<>> THEN st
        ELSE LET best_soldier == BestSoldier(candidates, st.objs)
             IN  [ objs |-> [st.objs EXCEPT ![best_soldier].total_services =
                                 Increment(st.objs[best_soldier].total_services)],
                   pending |-> Append(st.pending,
                                      [soldier_id |-> best_soldier,
                                       shift_type |-> shift_type]),
                   already_assigned_today |->
                       st.already_assigned_today \cup {best_soldier} ]

\* a changed FillFrom: the loop ends at the first slot with no candidate
RECURSIVE FillFromStopping(_, _, _, _)
FillFromStopping(i, all_soldiers, unavailable_soldier_ids, st) ==
    IF i > Len(slots) THEN st
    ELSE LET filled == FillSlot(slots[i], all_soldiers, unavailable_soldier_ids, st)
         IN  IF filled = st THEN st
             ELSE FillFromStopping(i + 1, all_soldiers, unavailable_soldier_ids, filled)

RECURSIVE FillFrom(_, _, _, _)
FillFrom(i, all_soldiers, unavailable_soldier_ids, st) ==
    IF i > Len(slots) THEN st
    ELSE FillFrom(i + 1, all_soldiers, unavailable_soldier_ids,
                  FillSlot(slots[i], all_soldiers, unavailable_soldier_ids, st))

\* the whole loop, from the Soldier objects as loaded
FillSlots(all_soldiers, objs, unavailable_soldier_ids) ==
    FillFrom(1, all_soldiers, unavailable_soldier_ids,
             [objs |-> objs, pending |-> <<>>, already_assigned_today |-> {}])

(***************************************************************************)
(* The store's part of a commit.                                           *)
(***************************************************************************)

\* SQLite gives a row without a given id one more than the largest id in use
NextId(rows) ==
    IF rows = {} THEN 1
    ELSE (CHOOSE m \in { r.id : r \in rows } : \A r \in rows : r.id <= m) + 1

\* the INSERTs of the final commit: one row per pending Assignment, in order,
\* confirmed False.  run is history: the request that inserted the row
InsertAssignments(rows, pending, target_date, run) ==
    rows \cup { [ id |-> NextId(rows) + (i - 1),
                  soldier_id |-> pending[i].soldier_id,
                  date |-> target_date,
                  shift_type |-> pending[i].shift_type,
                  confirmed |-> FALSE,
                  run |-> run ] : i \in 1..Len(pending) }

\* the UPDATEs of the final commit: total_services of every Soldier object the
\* loop changed is written as the session holds it
UpdateSoldiers(table, loaded, objs) ==
    [ id \in DOMAIN table |->
        IF id \in DOMAIN objs /\ objs[id].total_services # loaded[id].total_services
        THEN [table[id] EXCEPT !.total_services = objs[id].total_services]
        ELSE table[id] ]

\* the orders in which Soldier.query.all() may return the rows
RowOrders(ids) ==
    { o \in [1..Cardinality(ids) -> ids] : \A i, j \in 1..Cardinality(ids) : o[i] = o[j] => i = j }

(***************************************************************************)
(* State.                                                                  *)
(***************************************************************************)

\* a worker with no request: nothing read, nothing pending
NoSession ==
    [ pc |-> "idle", run |-> 0, date_str |-> <<>>, target_date |-> InvalidDate,
      result |-> "none",
      existing_assignments |-> {}, unavailable_soldier_ids |-> {},
      all_soldiers |-> <<>>, objs |-> <<>> ]

NoRequest == [ op |-> "none", run |-> 0, date_str |-> <<>>, target_date |-> InvalidDate,
               result |-> "none", before |-> {} ]

\* a generate request that has ended: "success" (returned True), "failure"
\* (returned False) or "error" (an exception of the store left the handler;
\* the session is rolled back when the request is torn down)
Finished(run, date_str, result, before) ==
    [ op |-> "generate", run |-> run, date_str |-> date_str,
      target_date |-> strptime(date_str), result |-> result, before |-> before ]

\* the rosters: none, or every soldier (a soldier switched off counts as absent)
Rosters == {{}, SoldierIds}

Init ==
    /\ \E ids \in Rosters :
          soldiers \in [ids -> [role : Roles, total_services : {0},
                                is_available : BOOLEAN]]
    /\ assignments = {}
    /\ unavailabilities = {}
    /\ req = [w \in Workers |-> NoSession]
    /\ runs = 0
    /\ init_total = [id \in DOMAIN soldiers |-> soldiers[id].total_services]
    /\ selected = [id \in DOMAIN soldiers |-> 0]
    /\ last = NoRequest

\* history: the rows of request run, counted per soldier
CountSelected(rows, run) ==
    [ id \in DOMAIN selected |->
        selected[id] + Cardinality({ a \in rows : a.run = run /\ a.soldier_id = id }) ]

(***************************************************************************)
(* generate_schedule_for_date as one request that nothing interleaves     *)
(* with.  fail names the commit the store rejects: "none", "delete" (the  *)
(* commit of the deletions) or "final" (the commit that ends the run).    *)
(***************************************************************************)
Generate(target_date_str, order, fail) ==
    LET target_date == strptime(target_date_str)
        run == runs + 1
        existing_assignments == ExistingAssignments(assignments, target_date)
        deleted == IF existing_assignments # {}
                   THEN DeleteExisting(assignments, existing_assignments)
                   ELSE assignments
        unavailable_soldier_ids == UnavailableSoldierIds(unavailabilities, target_date)
        st == FillSlots(order, soldiers, unavailable_soldier_ids)
        inserted == InsertAssignments(deleted, st.pending, target_date, run)
    IN  /\ runs < MaxRuns
        /\ runs' = run
        /\ UNCHANGED <<unavailabilities, req, init_total>>
        /\ IF target_date = InvalidDate
           THEN /\ fail = "none"
                /\ last' = Finished(run, target_date_str, "failure", {})
                /\ UNCHANGED <<soldiers, assignments, selected>>
           ELSE IF fail = "delete"
           THEN /\ existing_assignments # {}
                /\ last' = Finished(run, target_date_str, "error", existing_assignments)
                /\ UNCHANGED <<soldiers, assignments, selected>>
           ELSE IF fail = "final"
           THEN /\ assignments' = deleted
                /\ last' = Finished(run, target_date_str, "error", existing_assignments)
                /\ UNCHANGED <<soldiers, selected>>
           ELSE /\ assignments' = inserted
                /\ soldiers' = UpdateSoldiers(soldiers, soldiers, st.objs)
                /\ selected' = CountSelected(inserted, run)
                /\ last' = Finished(run, target_date_str, "success", existing_assignments)

(***************************************************************************)
(* The other handlers that write the tables.                               *)
(***************************************************************************)

\* confirm_schedule
Confirm(date_str) ==
    LET target_date == strptime(date_str)
    IN  /\ target_date # InvalidDate
        /\ assignments' = { IF a.date = target_date
                            THEN [a EXCEPT !.confirmed = TRUE] ELSE a : a \in assignments }
        /\ last' = NoRequest
        /\ UNCHANGED <<soldiers, unavailabilities, req, runs, init_total, selected>>

\* unavailability, action "add"
AddUnavailability(soldier_id, unavail_date) ==
    LET unavail_date_obj == strptime(unavail_date)
    IN  /\ unavail_date_obj # InvalidDate
        /\ NextId(unavailabilities) <= MaxUnavailId
        /\ unavailabilities' = unavailabilities \cup
               { [ id |-> NextId(unavailabilities), soldier_id |-> soldier_id,
                   date |-> unavail_date_obj ] }
        /\ last' = NoRequest
        /\ UNCHANGED <<soldiers, assignments, req, runs, init_total, selected>>

\* unavailability, action "delete"
DeleteUnavailability(unavail_id) ==
    /\ \E u \in unavailabilities : u.id = unavail_id
    /\ unavailabilities' = { u \in unavailabilities : u.id # unavail_id }
    /\ last' = NoRequest
    /\ UNCHANGED <<soldiers, assignments, req, runs, init_total, selected>>

Next ==
    \/ \E s \in DateStrs, order \in RowOrders(DOMAIN soldiers),
          fail \in {"none", "delete", "final"} : Generate(s, order, fail)
    \/ \E s \in DateStrs : Confirm(s)
    \/ \E id \in SoldierIds, s \in DateStrs : AddUnavailability(id, s)
    \/ \E id \in 1..MaxUnavailId : DeleteUnavailability(id)

Spec == Init /\ [][Next]_vars

(***************************************************************************)
(* generate_schedule_for_date step by step, one session per worker, for    *)
(* requests that overlap.  A step is one round trip to the store: a query  *)
(* reads the tables as committed, a commit writes the session's changes in *)
(* one transaction.                                                        *)
(***************************************************************************)

\* the worker's session once its request has ended
Ended(run, date_str, result) ==
    [NoSession EXCEPT !.run = run, !.date_str = date_str,
                      !.target_date = strptime(date_str), !.result = result]

\* strptime, then the query for the date's assignments
Start(w, target_date_str) ==
    LET target_date == strptime(target_date_str)
        run == runs + 1
        existing_assignments == ExistingAssignments(assignments, target_date)
    IN  /\ req[w].pc = "idle"
        /\ runs < MaxRuns
        /\ runs' = run
        /\ UNCHANGED <<store, init_total, selected>>
        /\ IF target_date = InvalidDate
           THEN /\ req' = [req EXCEPT ![w] = Ended(run, target_date_str, "failure")]
                /\ last' = Finished(run, target_date_str, "failure", {})
           ELSE /\ req' = [req EXCEPT ![w] =
                              [NoSession EXCEPT
                                  !.pc = IF existing_assignments # {}
                                         THEN "delete" ELSE "unavailable",
                                  !.run = run,
                                  !.date_str = target_date_str,
                                  !.target_date = target_date,
                                  !.existing_assignments = existing_assignments]]
                /\ last' = last

\* the deletes and their commit; ok is whether the store accepts the commit
DeleteCommit(w, ok) ==
    /\ req[w].pc = "delete"
    /\ UNCHANGED <<soldiers, unavailabilities, runs, init_total, selected>>
    /\ IF ok
       THEN /\ assignments' = DeleteExisting(assignments, req[w].existing_assignments)
            /\ req' = [req EXCEPT ![w].pc = "unavailable"]
            /\ last' = last
       ELSE /\ assignments' = assignments
            /\ req' = [req EXCEPT ![w] = Ended(req[w].run, req[w].date_str, "error")]
            /\ last' = Finished(req[w].run, req[w].date_str, "error",
                                req[w].existing_assignments)

\* the query for the date's unavailability rows
ReadUnavailability(w) ==
    /\ req[w].pc = "unavailable"
    /\ req' = [req EXCEPT ![w].pc = "soldiers",
                          ![w].unavailable_soldier_ids =
                              UnavailableSoldierIds(unavailabilities, req[w].target_date)]
    /\ UNCHANGED <<store, runs, init_total, selected, last>>

\* Soldier.query.all()
ReadSoldiers(w, order) ==
    /\ req[w].pc = "soldiers"
    /\ req' = [req EXCEPT ![w].pc = "fill", ![w].all_soldiers = order,
                          ![w].objs = soldiers]
    /\ UNCHANGED <<store, runs, init_total, selected, last>>

\* the loop over the slots and the commit that ends the run
FillCommit(w, ok) ==
    LET r == req[w]
        st == FillSlots(r.all_soldiers, r.objs, r.unavailable_soldier_ids)
        inserted == InsertAssignments(assignments, st.pending, r.target_date, r.run)
    IN  /\ r.pc = "fill"
        /\ UNCHANGED <<unavailabilities, runs, init_total>>
        /\ IF ok
           THEN /\ assignments' = inserted
                /\ soldiers' = UpdateSoldiers(soldiers, r.objs, st.objs)
                /\ selected' = CountSelected(inserted, r.run)
                /\ req' = [req EXCEPT ![w] = Ended(r.run, r.date_str, "success")]
                /\ last' = Finished(r.run, r.date_str, "success",
                                    r.existing_assignments)
           ELSE /\ UNCHANGED <<soldiers, assignments, selected>>
                /\ req' = [req EXCEPT ![w] = Ended(r.run, r.date_str, "error")]
                /\ last' = Finished(r.run, r.date_str, "error",
                                    r.existing_assignments)

NextConcurrent ==
    \/ \E w \in Workers, s \in DateStrs : Start(w, s)
    \/ \E w \in Workers, ok \in BOOLEAN : DeleteCommit(w, ok)
    \/ \E w \in Workers : ReadUnavailability(w)
    \/ \E w \in Workers, order \in RowOrders(DOMAIN soldiers) : ReadSoldiers(w, order)
    \/ \E w \in Workers, ok \in BOOLEAN : FillCommit(w, ok)
    \/ \E id \in SoldierIds, s \in DateStrs : AddUnavailability(id, s)

SpecConcurrent == Init /\ [][NextConcurrent]_vars

(***************************************************************************)
(* What the properties speak of.                                           *)
(***************************************************************************)

SlotLabels == { slots[i] : i \in 1..Len(slots) }

\* the date's rows in the table
RowsOn(d) == { a \in assignments : a.date = d }

\* the state a generate request leaves when it has just returned True
AfterSuccess == last.op = "generate" /\ last.result = "success"

\* the soldiers with an unavailability row on the date
UnavailableOn(d) == { u.soldier_id : u \in { r \in unavailabilities : r.date = d } }

\* the role rule as stated: every keyword the label holds is in the role
RoleAllows(label, role) ==
    \A k \in 1..Len(role_keywords) :
        Contains(role_keywords[k], label) => Contains(role_keywords[k], role)

\* eligible for the slot on the date, the day's earlier slots aside
Eligible(id, label, d) ==
    /\ soldiers[id].is_available
    /\ id \notin UnavailableOn(d)
    /\ RoleAllows(label, soldiers[id].role)

\* the soldiers the date's rows give a slot before the slot with this label
UsedBefore(rows, label) ==
    { b.soldier_id : b \in { r \in rows : SlotIndex(r.shift_type) < SlotIndex(label) } }

\* C1: after a generate request for a date has returned success, every row of
\* that date has a shift label of the five-slot list, and no soldier has two
\* rows on that date.
C1_LabelsAndNoDoubleBooking ==
    AfterSuccess =>
        /\ \A a \in RowsOn(last.target_date) : a.shift_type \in SlotLabels
        /\ \A a, b \in RowsOn(last.target_date) : a.soldier_id = b.soldier_id => a = b

\* a run that filled two slots with two soldiers who could both stand every watch
C1_Witness ==
    /\ AfterSuccess
    /\ Cardinality(RowsOn(last.target_date)) = 2
    /\ \A id \in DOMAIN soldiers : soldiers[id].role = Skopia

\* C4: regeneration is a full replace.  In every state a date holds at most one
\* row per slot, so never more than five; and after a generate request has
\* returned success, every row of its date was inserted by that request (none
\* of the rows stored before remains) and has confirmed = FALSE.
C4_FullReplace ==
    /\ \A d \in Dates :
          /\ \A a, b \in RowsOn(d) : a.shift_type = b.shift_type => a = b
          /\ Cardinality(RowsOn(d)) <= Len(slots)
    /\ AfterSuccess =>
          /\ \A a \in RowsOn(last.target_date) : a.run = last.run /\ ~a.confirmed
          /\ last.before \cap assignments = {}

\* a successful regeneration of a date whose earlier rows had been confirmed,
\* with fresh rows in their place
C4_Witness ==
    /\ AfterSuccess
    /\ \E b \in last.before : b.confirmed
    /\ RowsOn(last.target_date) # {}

\* C5: a successful run gives every slot it fills to the candidate with the
\* smallest total_services as it stands at that slot's turn, and among equal
\* counts to the smallest id, whatever order the store returned the soldiers in.
C5_Selection ==
    [][ (runs' = runs + 1 /\ last'.result = "success") =>
          LET d == last'.target_date
              rows == { a \in assignments' : a.date = d }
              AtTurn(id, label) ==
                  soldiers[id].total_services
                      + Cardinality({ b \in rows : /\ b.soldier_id = id
                                                   /\ SlotIndex(b.shift_type) < SlotIndex(label) })
          IN  \A a \in rows :
                LET pool == { id \in DOMAIN soldiers :
                                /\ Eligible(id, a.shift_type, d)
                                /\ id \notin UsedBefore(rows, a.shift_type) }
                    chosen == a.soldier_id
                IN  /\ chosen \in pool
                    /\ \A id \in pool :
                          \/ AtTurn(chosen, a.shift_type) < AtTurn(id, a.shift_type)
                          \/ /\ AtTurn(chosen, a.shift_type) = AtTurn(id, a.shift_type)
                             /\ chosen <= id
      ]_vars

\* a run in which soldier 2 took a watch before soldier 1, who could have stood
\* it and has the higher count
C5_Witness ==
    /\ AfterSuccess
    /\ \E a, b \in RowsOn(last.target_date) :
          /\ a.soldier_id = 2 /\ b.soldier_id = 1
          /\ SlotIndex(a.shift_type) < SlotIndex(b.shift_type)
          /\ Eligible(1, a.shift_type, last.target_date)
          /\ soldiers[1].total_services > soldiers[2].total_services

\* C6: after a generate request has returned success, no row of its date names
\* a soldier who has an unavailability row on that date or whose is_available
\* is FALSE.
C6_UnavailableNeverAssigned ==
    AfterSuccess =>
        \A a \in RowsOn(last.target_date) :
            /\ soldiers[a.soldier_id].is_available
            /\ a.soldier_id \notin UnavailableOn(last.target_date)

\* a run that left the date empty: the one soldier who can stand watch is
\* unavailable on the date, the other is switched off
C6_Witness ==
    /\ AfterSuccess
    /\ RowsOn(last.target_date) = {}
    /\ \E id, other \in DOMAIN soldiers :
          /\ id # other
          /\ id \in UnavailableOn(last.target_date)
          /\ soldiers[id].is_available /\ soldiers[id].role = Skopia
          /\ ~soldiers[other].is_available /\ soldiers[other].role = Skopia

\* a label that holds none of the keywords
SpecialDuty == <<"E", "i", "d", "i", "k", "i">>

\* the role check skips a soldier exactly when the label holds a keyword the
\* role lacks
RoleCheckAsStated ==
    \A label \in SlotLabels \cup {SpecialDuty}, role \in Roles :
        RoleMismatch(label, role) <=> ~RoleAllows(label, role)

\* C7: after a generate request has returned success, every row of its date
\* names a soldier whose role holds each keyword the row's label holds; and the
\* role check skips a soldier for a label exactly when the label holds a
\* keyword the role lacks, so that a label with no keyword takes any role.
C7_RoleMismatchExcluded ==
    /\ AfterSuccess =>
          \A a \in RowsOn(last.target_date) :
              RoleAllows(a.shift_type, soldiers[a.soldier_id].role)
    /\ RoleCheckAsStated

\* a run that gave the first watch to soldier 2 although soldier 1, available
\* and with no more services, has a role that is no watch role; soldier 1 is
\* left without a slot
C7_Witness ==
    /\ AfterSuccess
    /\ \E a \in RowsOn(last.target_date) : a.shift_type = slots[1] /\ a.soldier_id = 2
    /\ \A a \in RowsOn(last.target_date) : a.soldier_id = 2
    /\ 1 \in DOMAIN soldiers
    /\ soldiers[1].is_available
    /\ 1 \notin UnavailableOn(last.target_date)
    /\ ~Contains(Skopia, soldiers[1].role)
    /\ soldiers[1].total_services < soldiers[2].total_services

\* the date strings of DateStrs that are no YYYY-MM-DD date
Unparseable == { <<2025, 13, 1>>, <<2025, 2, 30>>, <<2025, 1>> }

\* C8: a generate request whose date string cannot be parsed returns failure
\* and leaves every table as it was.
C8_InvalidDateNoMutation ==
    [][ (runs' = runs + 1 /\ last'.date_str \in Unparseable) =>
          /\ last'.result = "failure"
          /\ soldiers' = soldiers
          /\ assignments' = assignments
          /\ unavailabilities' = unavailabilities
      ]_vars

\* a request with an unparseable date has failed while the tables held rows
C8_Witness ==
    /\ last.op = "generate" /\ last.date_str \in Unparseable
    /\ last.result = "failure"
    /\ assignments # {}
    /\ unavailabilities # {}

\* C9: a generate request with a parseable date that the store does not fail
\* returns success, also with no soldier in the roster; and after it every slot
\* without a row on the date is one for which every soldier is switched off,
\* unavailable on the date, of an unfit role, or holds an earlier slot.
C9_EverySlotWithCandidateFilled ==
    (last.op = "generate" /\ last.date_str \in DateStrs \ Unparseable
                          /\ last.result # "error") =>
        /\ last.result = "success"
        /\ \A label \in SlotLabels :
              (\A a \in RowsOn(last.target_date) : a.shift_type # label) =>
                  \A id \in DOMAIN soldiers :
                      \/ ~Eligible(id, label, last.target_date)
                      \/ id \in UsedBefore(RowsOn(last.target_date), label)

\* a run that filled the first two watches and left the third empty because
\* both soldiers, fit for it, were used
C9_Witness ==
    /\ AfterSuccess
    /\ { a.shift_type : a \in RowsOn(last.target_date) } = {slots[1], slots[2]}
    /\ \A id \in DOMAIN soldiers : Eligible(id, slots[3], last.target_date)

\* C10: in every state each soldier's total_services is its value at the start
\* plus the number of rows generate has committed for that soldier, and is at
\* least the number of rows stored for that soldier.
C10_TotalServices ==
    \A id \in DOMAIN soldiers :
        /\ soldiers[id].total_services = init_total[id] + selected[id]
        /\ soldiers[id].total_services
               >= Cardinality({ a \in assignments : a.soldier_id = id })

\* a regeneration has replaced a soldier's row: two increments, one row stored
C10_Witness ==
    /\ AfterSuccess
    /\ last.before # {}
    /\ \E id \in DOMAIN soldiers :
          /\ soldiers[id].total_services = 2
          /\ Cardinality({ a \in assignments : a.soldier_id = id }) = 1

\* C2: a generate request that the store fails leaves no effect: the tables of
\* assignments and soldiers are as they were before it.
C2_AllOrNothing ==
    [][ (runs' = runs + 1 /\ last'.result = "error") =>
          /\ assignments' = assignments
          /\ soldiers' = soldiers
      ]_vars

\* C3: when two generate requests for one date have both returned success, the
\* date's rows are those of one of the two runs: all inserted by the same
\* request, at most one per slot, no soldier twice.
C3_LastCommitWins ==
    \A v, w \in Workers :
        ( /\ v # w
          /\ req[v].pc = "idle" /\ req[v].result = "success"
          /\ req[w].pc = "idle" /\ req[w].result = "success"
          /\ req[v].target_date = req[w].target_date ) =>
            LET rows == RowsOn(req[v].target_date)
            IN  /\ \E run \in {req[v].run, req[w].run} : \A a \in rows : a.run = run
                /\ \A a, b \in rows : a.shift_type = b.shift_type => a = b
                /\ \A a, b \in rows : a.soldier_id = b.soldier_id => a = b

====
